---- MODULE Spec2Model ----
(***************************************************************************)
(* Model of the MCP recommendation chat assistant (src/src/app.py with     *)
(* src/vector_store.py and src/src/local_servers.py): the catalog cache,   *)
(* the similarity index, the recommendation engine, the connection manager *)
(* and the per-session registry.                                           *)
(*                                                                         *)
(* Strings are sequences of one-character strings, so that strip(),        *)
(* lower(), split() and the substring test are computed, not assumed.      *)
(* A Python None is the empty sequence <<>>, a value v is <<v>>.           *)
(* Time is counted in hours.                                               *)
(***************************************************************************)
EXTENDS Integers, Sequences, FiniteSets, TLC

\* ------------------------------------------------------------------ bounds
\* number of entries of the curated list the model works with
CatalogSize == 4
\* chat messages the user of the session sends
MaxTurns == 3
\* the clock of the chat model stops at this hour
MaxTime == 24
\* the clock of the cache model stops at this hour
MaxCacheTime == 50
MaxTurnsEach == 1
\* the extended variant: npm packages whose lookup may succeed, calls per caller
MaxPackages == 3
MaxCalls == 2
\* the largest index searched when search_servers is studied on its own
MaxIndex == 32
\* the longest list stored when store_servers is studied on its own
MaxStoreLen == 3

Sessions == {"s1", "s2"}

\* ------------------------------------------------------------ text helpers
UpperChars == <<"A","B","C","D","E","F","G","H","I","J","K","L","M",
                "N","O","P","Q","R","S","T","U","V","W","X","Y","Z">>
LowerChars == <<"a","b","c","d","e","f","g","h","i","j","k","l","m",
                "n","o","p","q","r","s","t","u","v","w","x","y","z">>
Whitespace == {" ", "\t", "\n"}

\* str.lower() on one character
LowerChar(c) ==
    IF \E i \in 1..Len(UpperChars) : UpperChars[i] = c
    THEN LowerChars[CHOOSE i \in 1..Len(UpperChars) : UpperChars[i] = c]
    ELSE c

\* str.lower()
Lower(str) == [i \in 1..Len(str) |-> LowerChar(str[i])]

\* str.strip()
Strip(str) ==
    LET keep == {i \in 1..Len(str) : str[i] \notin Whitespace}
    IN  IF keep = {} THEN <<>>
        ELSE LET lo == CHOOSE i \in keep : \A j \in keep : i <= j
                 hi == CHOOSE i \in keep : \A j \in keep : j <= i
             IN  SubSeq(str, lo, hi)

\* str.startswith(prefix)
StartsWith(str, prefix) ==
    /\ Len(prefix) <= Len(str)
    /\ SubSeq(str, 1, Len(prefix)) = prefix

\* pat in str
Contains(str, pat) ==
    \E i \in 1..(Len(str) - Len(pat) + 1) : SubSeq(str, i, i + Len(pat) - 1) = pat

\* str.split(sep) for a one-character separator
RECURSIVE Split(_, _)
Split(str, sep) ==
    IF \A i \in 1..Len(str) : str[i] # sep THEN <<str>>
    ELSE LET k == CHOOSE i \in 1..Len(str) :
                      str[i] = sep /\ \A j \in 1..(i - 1) : str[j] # sep
         IN  <<SubSeq(str, 1, k - 1)>> \o Split(SubSeq(str, k + 1, Len(str)), sep)

\* str.split(sep, 1)[1]: what follows the first separator
AfterFirst(str, sep) ==
    LET k == CHOOSE i \in 1..Len(str) :
                 str[i] = sep /\ \A j \in 1..(i - 1) : str[j] # sep
    IN  SubSeq(str, k + 1, Len(str))

\* str.replace(a, b) for one-character a and b
Replace(str, a, b) == [i \in 1..Len(str) |-> IF str[i] = a THEN b ELSE str[i]]

\* sep.join(parts)
RECURSIVE Join(_, _)
Join(parts, sep) ==
    IF Len(parts) = 0 THEN <<>>
    ELSE IF Len(parts) = 1 THEN parts[1]
    ELSE parts[1] \o sep \o Join(Tail(parts), sep)

\* lst[:n]
Take(lst, n) == SubSeq(lst, 1, IF Len(lst) < n THEN Len(lst) ELSE n)

\* [x for x in lst if x in keep]
RECURSIVE Filter(_, _)
Filter(lst, keep) ==
    IF Len(lst) = 0 THEN <<>>
    ELSE (IF Head(lst) \in keep THEN <<Head(lst)>> ELSE <<>>) \o Filter(Tail(lst), keep)

Range(lst) == {lst[i] : i \in 1..Len(lst)}

\* the "name" fields of a list of servers or handles
NamesOf(lst) == [i \in 1..Len(lst) |-> lst[i].name]

\* --------------------------------------------------------------- catalog
\* local_servers.get_local_mcp_servers(): name and transport type of each entry
get_local_mcp_servers == <<
    [name |-> <<"f","e","t","c","h">>, type |-> "stdio"],
    [name |-> <<"s","q","l","i","t","e">>, type |-> "stdio"],
    [name |-> <<"t","i","m","e">>, type |-> "stdio"],
    [name |-> <<"f","i","l","e","s","y","s","t","e","m">>, type |-> "stdio"],
    [name |-> <<"g","i","t","h","u","b">>, type |-> "stdio"],
    [name |-> <<"b","r","a","v","e","-","s","e","a","r","c","h">>, type |-> "stdio"],
    [name |-> <<"s","l","a","c","k">>, type |-> "stdio"],
    [name |-> <<"c","h","a","r","g","e","b","e","e">>, type |-> "stdio"],
    [name |-> <<"p","u","p","p","e","t","e","e","r">>, type |-> "stdio"],
    [name |-> <<"m","e","m","o","r","y">>, type |-> "stdio"],
    [name |-> <<"d","o","l","l","h","o","u","s","e","m","c","p","o","f","f","i","c","i","a","l">>,
     type |-> "stdio"],
    [name |-> <<"p","o","s","t","g","r","e","s","q","l"," ","m","c","p">>, type |-> "stdio"] >>

\* the entries of the curated list the model works with
Catalog ==
    SubSeq(get_local_mcp_servers, 1,
           IF CatalogSize < Len(get_local_mcp_servers)
           THEN CatalogSize ELSE Len(get_local_mcp_servers))

VARIABLES
    now,                 \* datetime.now(), in hours
    mcp_servers_cache,   \* _mcp_servers_cache: <<>> or <<list of servers>>
    cache_timestamp,     \* _cache_timestamp: <<>> or <<hour>>
    cache_call,          \* the last direct call of get_mcp_servers: argument, result, state before
    index,               \* the vector collection: list of [id, name, type]
    mcp_registry,        \* session id -> list of connected server handles (a partial map)
    user_session,        \* cl.user_session of each session: agent, recommended_servers
    pc,                  \* where each session's handler is suspended
    turn,                \* locals of the handler that is running in each session
    out,                 \* what the current/last turn of each session did and sent
    remaining,           \* messages each user will still send
    fn_call,             \* the last direct call of a function studied on its own
    ext                  \* the cache layer of the extended variant (src/app.py)

vars == <<now, mcp_servers_cache, cache_timestamp, cache_call, index, mcp_registry,
          user_session, pc, turn, out, remaining, fn_call, ext>>

\* ----------------------------------------------------------- cache layer
\* _cache_ttl = timedelta(hours=24)
cache_ttl == 24

\* truthiness of "_mcp_servers_cache and _cache_timestamp"
CacheSet(cache, stamp) == cache # <<>> /\ Len(cache[1]) > 0 /\ stamp # <<>>

\* mutant: the age test lets a snapshot of exactly the TTL through
CacheFresh_inclusive(use_cache, cache, stamp, t) ==
    /\ use_cache
    /\ cache # <<>> /\ Len(cache[1]) > 0 /\ stamp # <<>>
    /\ t - stamp[1] <= 24

\* the test that lets get_mcp_servers return the stored snapshot
CacheFresh(use_cache, cache, stamp, t) ==
    /\ use_cache
    /\ CacheSet(cache, stamp)
    /\ t - stamp[1] < cache_ttl

\* mutant: the stored snapshot is returned, but stamped again
get_mcp_servers_restamp(use_cache, cache, stamp, t) ==
    IF use_cache /\ cache # <<>> /\ Len(cache[1]) > 0 /\ stamp # <<>> /\ t - stamp[1] < 24
    THEN [ret |-> cache[1], cache |-> cache, stamp |-> <<t>>]
    ELSE [ret |-> Catalog, cache |-> <<Catalog>>, stamp |-> <<t>>]

\* get_mcp_servers(use_cache) at time t: the returned list and the cache after the call
get_mcp_servers(use_cache, cache, stamp, t) ==
    IF CacheFresh(use_cache, cache, stamp, t)
    THEN [ret |-> cache[1], cache |-> cache, stamp |-> stamp]
    ELSE [ret |-> Catalog, cache |-> <<Catalog>>, stamp |-> <<t>>]


\* ------------------------------------------------------ similarity index
\* store_servers: server_id = name.lower().replace(" ", "-")
Slug(name) == Replace(Lower(name), " ", "-")

\* a variant that adds the entry whether or not its id is stored already
Upsert_append(idx, e) == Append(idx, e)

\* collection.upsert of one entry: the entry with the same id is overwritten,
\* a new id is added
Upsert(idx, e) ==
    IF \E i \in 1..Len(idx) : idx[i].id = e.id
    THEN [i \in 1..Len(idx) |-> IF idx[i].id = e.id THEN e ELSE idx[i]]
    ELSE Append(idx, e)

\* store_servers(servers): entries with an empty id are skipped, the others upserted
RECURSIVE store_servers(_, _)
store_servers(idx, servers) ==
    IF Len(servers) = 0 THEN idx
    ELSE LET sv == Head(servers)
             id == Slug(sv.name)
         IN  store_servers(
                 IF id = <<>> THEN idx
                 ELSE Upsert(idx, [id |-> id, name |-> sv.name, type |-> sv.type]),
                 Tail(servers))

\* get_all_servers(): the full dump of the collection
get_all_servers(idx) == [i \in 1..Len(idx) |-> [name |-> idx[i].name, type |-> idx[i].type]]

\* a variant that passes n_results on as it is
SearchLimit_unclamped(n_results) == n_results

\* min(n_results, 30)
SearchLimit(n_results) == IF n_results < 30 THEN n_results ELSE 30

\* the stored entries, starting from the r-th and wrapping around
Rotate(lst, r) == [i \in 1..Len(lst) |-> lst[((i + r - 1) % Len(lst)) + 1]]

\* the result lists collection.query may give for n results: the n nearest
\* entries, nearest first. Which entries are nearest is decided by the embedding
\* of the query; the orders explored are the rotations of the stored order.
QueryResults(idx, n) ==
    {Take(get_all_servers(Rotate(idx, r)), n) : r \in 0..(Len(idx) - 1)}

\* a variant without the early return for a blank query
search_servers_noblank(idx, query, n_results) ==
    IF Len(idx) = 0 THEN {<<>>}
    ELSE QueryResults(idx, SearchLimit(n_results))

\* search_servers(query, n_results): the lists it may return without raising
search_servers(idx, query, n_results) ==
    IF query = <<>> \/ Strip(query) = <<>> THEN {<<>>}
    ELSE IF Len(idx) = 0 THEN {<<>>}
    ELSE QueryResults(idx, SearchLimit(n_results))

\* the n_results the collection is queried with: none for a blank query, for
\* which search_servers returns before get_collection()
QueryAsked(query, n_results) ==
    IF query = <<>> \/ Strip(query) = <<>> THEN <<>>
    ELSE <<SearchLimit(n_results)>>

\* ------------------------------------------------- recommendation engine
NoneToken == <<"n","o","n","e">>

\* mutant: the matched servers are returned without the cap
ParseRecommendation_uncapped(text, candidate_servers) ==
    IF Contains(Lower(text), NoneToken) THEN
        [path |-> "none", servers |-> Take(candidate_servers, 3)]
    ELSE
        LET parts == Split(text, ",")
            recommended_names == {Lower(Strip(parts[i])) : i \in 1..Len(parts)}
            recommended_servers ==
                Filter(candidate_servers,
                       {c \in Range(candidate_servers) : Lower(c.name) \in recommended_names})
        IN  IF Len(recommended_servers) > 0
            THEN [path |-> "matched", servers |-> recommended_servers]
            ELSE [path |-> "nomatch", servers |-> Take(candidate_servers, 3)]

\* the part of recommend_servers_intelligent after the oracle answered with text
ParseRecommendation(text, candidate_servers) ==
    IF Contains(Lower(text), NoneToken) THEN
        [path |-> "none", servers |-> Take(candidate_servers, 3)]
    ELSE
        LET parts == Split(text, ",")
            recommended_names == {Lower(Strip(parts[i])) : i \in 1..Len(parts)}
            recommended_servers ==
                Filter(candidate_servers,
                       {c \in Range(candidate_servers) : Lower(c.name) \in recommended_names})
        IN  IF Len(recommended_servers) > 0
            THEN [path |-> "matched", servers |-> Take(recommended_servers, 3)]
            ELSE [path |-> "nomatch", servers |-> Take(candidate_servers, 3)]

\* a variant whose except branch returns every candidate
OracleFallback_all(candidate_servers) ==
    [path |-> "oracle_error", servers |-> candidate_servers]

\* the except branch around the oracle call
OracleFallback(candidate_servers) ==
    [path |-> "oracle_error", servers |-> Take(candidate_servers, 3)]

\* recommend_servers_intelligent once the candidates are known: nothing without
\* candidates, otherwise what the oracle's answer (or its exception) leads to
rank_candidates(candidate_servers, raised, text) ==
    IF Len(candidate_servers) = 0 THEN [path |-> "empty", servers |-> <<>>]
    ELSE IF raised THEN OracleFallback(candidate_servers)
    ELSE ParseRecommendation(text, candidate_servers)

\* ---------------------------------------------------------- chat inputs
ConnectPrefix == <<"c","o","n","n","e","c","t"," ">>
ListPhrases == { <<"l","i","s","t"," ","s","e","r","v","e","r","s">>,
                 <<"l","i","s","t"," ","c","o","n","n","e","c","t","e","d">>,
                 <<"s","e","r","v","e","r","s">>,
                 <<"c","o","n","n","e","c","t","e","d">> }

\* on_message: user_text = message.content.strip().lower()
UserText(content) == Lower(Strip(content))

\* a variant that compares the message as typed, without lower-casing it
Dispatch_cased(content) ==
    IF StartsWith(Strip(content), ConnectPrefix) THEN "connect"
    ELSE IF Strip(content) \in ListPhrases THEN "list"
    ELSE "chat"

\* which branch of on_message a message takes
Dispatch(content) ==
    IF StartsWith(UserText(content), ConnectPrefix) THEN "connect"
    ELSE IF UserText(content) \in ListPhrases THEN "list"
    ELSE "chat"

\* a variant that takes the first word after the command only
ServerNameOf_first_word(content) ==
    LET parts == Split(UserText(content), " ")
    IN  IF Len(parts) >= 2 THEN parts[2] ELSE <<>>

\* server_name = user_text.split(" ", 1)[1].strip()
ServerNameOf(content) == Strip(AfterFirst(UserText(content), " "))

\* upper-casing, used only to build inputs
UpperChar(c) ==
    IF \E i \in 1..Len(LowerChars) : LowerChars[i] = c
    THEN UpperChars[CHOOSE i \in 1..Len(LowerChars) : LowerChars[i] = c]
    ELSE c
Upper(str) == [i \in 1..Len(str) |-> UpperChar(str[i])]

UnknownName == <<"n","o","p","e">>
\* not a catalog name either, but the beginning of one
PartialName == <<"f","e","t">>

\* the messages a user types
\* (every other catalog name is typed in capitals with spaces around it)
ConnectMessages ==
    {IF i % 2 = 1 THEN <<" ">> \o Upper(ConnectPrefix \o Catalog[i].name) \o <<" ">>
     ELSE ConnectPrefix \o Catalog[i].name : i \in 1..Len(Catalog)}
    \cup {ConnectPrefix \o UnknownName, ConnectPrefix \o PartialName}
ListMessages ==
    {<<"s","e","r","v","e","r","s">>, <<"L","i","s","t"," ","C","o","n","n","e","c","t","e","d">>}
\* (a blank message, and the word connect with no name after it)
ChatMessages ==
    {<<" ">>, <<"c","o","n","n","e","c","t">>}
Messages == ConnectMessages \cup ListMessages \cup ChatMessages

\* the branch each message takes and the server name a connect message asks
\* for, computed once
Requests ==
    [m \in Messages |->
        [branch |-> Dispatch(m),
         server_name |-> IF Dispatch(m) = "connect" THEN ServerNameOf(m) ELSE <<>>]]

\* the messages by the branch they take
ConnectRequests == {m \in Messages : Requests[m].branch = "connect"}
ListRequests == {m \in Messages : Requests[m].branch = "list"}
ChatRequests == {m \in Messages : Requests[m].branch = "chat"}

\* the answers the ranking oracle may give for a candidate list
OracleTexts(candidate_servers) ==
    LET names == NamesOf(candidate_servers)
        picks == {Filter(names, S) : S \in (SUBSET Range(names)) \ {{}}}
    IN  {Join(p, <<",">>) : p \in picks}
        \cup {Upper(Join(p, <<","," ">>)) : p \in picks}
        \cup {NoneToken, <<"N","o","n","e",".">>, UnknownName}
        \cup {names[1] \o <<","," ">> \o NoneToken}


\* the results recommend_servers_intelligent may return for a candidate list:
\* one per answer of the oracle, and the one of the except branch
RecommendOutcomes(candidate_servers) ==
    {ParseRecommendation(text, candidate_servers) : text \in OracleTexts(candidate_servers)}
    \cup {OracleFallback(candidate_servers)}

\* the index once on_chat_start has populated it
FullIndex == store_servers(<<>>, Catalog)

\* tables of the two operators above on the populated index, computed once
SearchTable == [q \in ChatRequests |-> search_servers(FullIndex, q, 15)]
RecommendTable ==
    [c \in QueryResults(FullIndex, SearchLimit(15)) \cup {Catalog} |-> RecommendOutcomes(c)]

SearchOf(idx, query) ==
    IF idx = FullIndex /\ query \in DOMAIN SearchTable
    THEN SearchTable[query] ELSE search_servers(idx, query, 15)
RecommendOf(candidate_servers) ==
    IF candidate_servers \in DOMAIN RecommendTable
    THEN RecommendTable[candidate_servers] ELSE RecommendOutcomes(candidate_servers)

\* --------------------------------------------------------- session state
\* mcp_registry.get(session_id, [])
Conns(s) == IF s \in DOMAIN mcp_registry THEN mcp_registry[s] ELSE <<>>

\* mutant: every message starts the session's list afresh
EnsureEntry_reset(reg, s) == [x \in DOMAIN reg \cup {s} |-> IF x = s THEN <<>> ELSE reg[x]]

\* on_message: if session_id not in mcp_registry: mcp_registry[session_id] = []
EnsureEntry(reg, s) == IF s \in DOMAIN reg THEN reg ELSE reg @@ (s :> <<>>)

\* cl.user_session.get("recommended_servers", set())
History(s) ==
    IF user_session[s].recommended_servers = <<>> THEN {}
    ELSE user_session[s].recommended_servers[1]

\* a variant in which the agent is given no servers
AgentServers_unbound(agent) == <<>>

\* the list object an agent's mcp_servers refers to: the registry list of its session
AgentServers(agent) == Conns(agent.mcp_servers_of)

NoTurn == [content |-> <<>>, server_name |-> <<>>, target |-> <<>>,
           candidate_servers |-> <<>>]

\* the record of a turn, filled in as the handler proceeds
NewOut(branch, s, content) ==
    [branch |-> branch, content |-> content, kind |-> "pending", server_name |-> <<>>,
     before |-> Conns(s), history_before |-> History(s),
     attempts |-> 0, failure |-> "", route |-> "",
     path |-> "", ncands |-> 0, recommended |-> <<>>, shown |-> <<>>, lines |-> <<>>,
     agent_servers |-> <<>>, shown_turns |-> 0]

\* the record of a turn that begins; shown_turns, the number of turns of the
\* session that ended with a recommendation message, is carried over
TurnOut(branch, s, content) ==
    [NewOut(branch, s, content) EXCEPT !.shown_turns = out[s].shown_turns]


Init ==
    /\ now = 0
    /\ mcp_servers_cache = <<>>
    /\ cache_timestamp = <<>>
    /\ cache_call = <<>>
    /\ index = <<>>
    /\ mcp_registry = << >>
    /\ user_session = [s \in Sessions |-> [agent |-> <<>>, recommended_servers |-> <<>>]]
    /\ pc = [s \in Sessions |-> "new"]
    /\ turn = [s \in Sessions |-> NoTurn]
    /\ out = [s \in Sessions |-> [NewOut("", s, <<>>) EXCEPT !.kind = "none"]]
    /\ remaining = [s \in Sessions |-> IF s = "s1" THEN MaxTurns ELSE 0]
    /\ fn_call = <<>>
    /\ ext = <<>>

\* a day passes
Tick ==
    /\ now + cache_ttl <= MaxTime
    /\ now' = now + cache_ttl
    /\ UNCHANGED <<mcp_servers_cache, cache_timestamp, cache_call, fn_call, ext, index,
                   mcp_registry, user_session, pc, turn, out, remaining>>

\* on_chat_start: populate the index with the local servers if it is empty;
\* any exception (backend down) is swallowed and leaves the index as it was
OnChatStart(s) ==
    /\ pc[s] = "new"
    /\ remaining[s] > 0
    /\ \E ok \in BOOLEAN :
          index' = IF ok /\ Len(get_all_servers(index)) = 0
                   THEN store_servers(index, Catalog) ELSE index
    /\ pc' = [pc EXCEPT ![s] = "idle"]
    /\ UNCHANGED <<now, mcp_servers_cache, cache_timestamp, cache_call, fn_call, ext,
                   mcp_registry, user_session, turn, out, remaining>>

\* mutant: a name that begins a catalog name resolves to that entry
FindTarget_prefix(servers, server_name) ==
    IF \E i \in 1..Len(servers) : StartsWith(servers[i].name, server_name)
    THEN <<servers[CHOOSE i \in 1..Len(servers) :
                      /\ StartsWith(servers[i].name, server_name)
                      /\ \A j \in 1..(i - 1) : ~StartsWith(servers[j].name, server_name)]>>
    ELSE <<>>

\* first entry of servers with the given name: next((s for s in servers if ...), None)
FindTarget(servers, server_name) ==
    IF \E i \in 1..Len(servers) : servers[i].name = server_name
    THEN <<servers[CHOOSE i \in 1..Len(servers) :
                      /\ servers[i].name = server_name
                      /\ \A j \in 1..(i - 1) : servers[j].name # server_name]>>
    ELSE <<>>

\* mutant: the registry is not looked at before connecting
AlreadyConnected_unchecked(existing_servers, server_name) == FALSE

\* any(s.name == server_name for s in existing_servers)
AlreadyConnected(existing_servers, server_name) ==
    \E i \in 1..Len(existing_servers) : existing_servers[i].name = server_name

\* the MCPServerStreamableHttp / MCPServerStdio object built for a target
MakeServer(target) ==
    IF target.type = "http"
    THEN [name |-> target.name, type |-> "http"]
    ELSE [name |-> target.name, type |-> "stdio"]

\* a variant in which all sessions share one list
Register_shared(reg, s, server) ==
    [t \in DOMAIN EnsureEntry(reg, s) |-> Append(EnsureEntry(reg, s)[t], server)]

\* mcp_registry.setdefault(session_id, []).append(server)
Register(reg, s, server) ==
    [EnsureEntry(reg, s) EXCEPT ![s] = Append(EnsureEntry(reg, s)[s], server)]

\* on_message, connect command, up to the first suspension inside
\* connect_mcp_server: resolve the name, check the registry, start the connect
OnMessageConnect(s) ==
    /\ pc[s] = "idle"
    /\ remaining[s] > 0
    /\ \E content \in ConnectRequests :
           LET server_name == Requests[content].server_name
               got == get_mcp_servers(TRUE, mcp_servers_cache, cache_timestamp, now)
               target == FindTarget(got.ret, server_name)
               reg == EnsureEntry(mcp_registry, s)
               o == [TurnOut("connect", s, content) EXCEPT !.server_name = server_name]
           IN  /\ mcp_servers_cache' = got.cache
               /\ cache_timestamp' = got.stamp
               /\ mcp_registry' = reg
               /\ IF target = <<>> THEN
                      /\ out' = [out EXCEPT ![s] = [o EXCEPT !.kind = "NotFound"]]
                      /\ UNCHANGED <<pc, turn>>
                  ELSE IF AlreadyConnected(reg[s], server_name) THEN
                      /\ out' = [out EXCEPT ![s] = [o EXCEPT !.kind = "AlreadyConnected"]]
                      /\ UNCHANGED <<pc, turn>>
                  ELSE
                      /\ out' = [out EXCEPT ![s] = [o EXCEPT !.attempts = 1]]
                      /\ pc' = [pc EXCEPT ![s] = "connect"]
                      /\ turn' = [turn EXCEPT ![s] =
                                    [NoTurn EXCEPT !.server_name = server_name,
                                                   !.target = target]]
    /\ remaining' = [remaining EXCEPT ![s] = @ - 1]
    /\ UNCHANGED <<now, cache_call, fn_call, ext, index, user_session>>

\* mutant: the server is appended to the registry before the connect is awaited
ConnectDone_registered_first(s) ==
    /\ pc[s] = "connect"
    /\ mcp_registry' = Register(mcp_registry, s, MakeServer(turn[s].target[1]))
    /\ \E result \in {"ok", "timeout", "connect_error"} :
          IF result = "ok" THEN
              /\ pc' = [pc EXCEPT ![s] = "list_tools"]
              /\ UNCHANGED <<turn, out>>
          ELSE
              /\ out' = [out EXCEPT ![s].kind = "ConnectFailed", ![s].failure = result]
              /\ pc' = [pc EXCEPT ![s] = "idle"]
              /\ turn' = [turn EXCEPT ![s] = NoTurn]
    /\ UNCHANGED <<now, mcp_servers_cache, cache_timestamp, cache_call, fn_call, ext,
                   index, user_session, remaining>>

\* asyncio.wait_for(server.connect(), timeout=30) returns, times out or raises;
\* on return the server is appended to the registry and list_tools is awaited
ConnectDone(s) ==
    /\ pc[s] = "connect"
    /\ \E result \in {"ok", "timeout", "connect_error"} :
          IF result = "ok" THEN
              /\ mcp_registry' = Register(mcp_registry, s, MakeServer(turn[s].target[1]))
              /\ pc' = [pc EXCEPT ![s] = "list_tools"]
              /\ UNCHANGED <<turn, out>>
          ELSE
              /\ out' = [out EXCEPT ![s].kind = "ConnectFailed", ![s].failure = result]
              /\ pc' = [pc EXCEPT ![s] = "idle"]
              /\ turn' = [turn EXCEPT ![s] = NoTurn]
              /\ UNCHANGED mcp_registry
    /\ UNCHANGED <<now, mcp_servers_cache, cache_timestamp, cache_call, fn_call, ext,
                   index, user_session, remaining>>

\* server.list_tools() returns or raises; on return the agent is invalidated
ListToolsDone(s) ==
    /\ pc[s] = "list_tools"
    /\ \E result \in {"ok", "list_tools_error"} :
          IF result = "ok" THEN
              /\ user_session' = [user_session EXCEPT ![s].agent = <<>>]
              /\ out' = [out EXCEPT ![s].kind = "Connected"]
          ELSE
              /\ out' = [out EXCEPT ![s].kind = "ConnectFailed", ![s].failure = result]
              /\ UNCHANGED user_session
    /\ pc' = [pc EXCEPT ![s] = "idle"]
    /\ turn' = [turn EXCEPT ![s] = NoTurn]
    /\ UNCHANGED <<now, mcp_servers_cache, cache_timestamp, cache_call, fn_call, ext,
                   index, mcp_registry, remaining>>


\* on_message, list command: an empty registry is answered at once, otherwise
\* the handler walks the connected servers, awaiting list_tools for each
OnMessageList(s) ==
    /\ pc[s] = "idle"
    /\ remaining[s] > 0
    /\ mcp_registry' = EnsureEntry(mcp_registry, s)
    /\ \E content \in ListRequests :
           IF Len(Conns(s)) = 0 THEN
               /\ out' = [out EXCEPT ![s] =
                             [TurnOut("list", s, content) EXCEPT !.kind = "NoServers"]]
               /\ UNCHANGED pc
           ELSE
               /\ out' = [out EXCEPT ![s] = TurnOut("list", s, content)]
               /\ pc' = [pc EXCEPT ![s] = "listing"]
    /\ remaining' = [remaining EXCEPT ![s] = @ - 1]
    /\ UNCHANGED <<now, mcp_servers_cache, cache_timestamp, cache_call, fn_call, ext,
                   index, user_session, turn>>

\* a variant whose loop has no try/except: a failing list_tools ends the turn
ListStep_abort(s) ==
    /\ pc[s] = "listing"
    /\ LET i == Len(out[s].lines) + 1
           connected == Conns(s)
       IN  \E result \in {"ok", "list_tools_error"} :
              LET line == [name |-> connected[i].name, tools |-> "count"]
                  lines == Append(out[s].lines, line)
              IN  IF result # "ok" THEN
                      /\ out' = [out EXCEPT ![s].kind = "ListError"]
                      /\ pc' = [pc EXCEPT ![s] = "idle"]
                  ELSE IF i < Len(connected) THEN
                      /\ out' = [out EXCEPT ![s].lines = lines]
                      /\ UNCHANGED pc
                  ELSE
                      /\ out' = [out EXCEPT ![s].lines = lines, ![s].kind = "Listing"]
                      /\ pc' = [pc EXCEPT ![s] = "idle"]
    /\ UNCHANGED <<now, mcp_servers_cache, cache_timestamp, cache_call, fn_call, ext,
                   index, mcp_registry, user_session, turn, remaining>>

\* one round of the listing loop: list_tools of the next server returns or raises
ListStep(s) ==
    /\ pc[s] = "listing"
    /\ LET i == Len(out[s].lines) + 1
           connected == Conns(s)
       IN  \E result \in {"ok", "list_tools_error"} :
              LET line == [name |-> connected[i].name,
                           tools |-> IF result = "ok" THEN "count" ELSE "unavailable"]
                  lines == Append(out[s].lines, line)
              IN  IF i < Len(connected) THEN
                      /\ out' = [out EXCEPT ![s].lines = lines]
                      /\ UNCHANGED pc
                  ELSE
                      /\ out' = [out EXCEPT ![s].lines = lines, ![s].kind = "Listing"]
                      /\ pc' = [pc EXCEPT ![s] = "idle"]
    /\ UNCHANGED <<now, mcp_servers_cache, cache_timestamp, cache_call, fn_call, ext,
                   index, mcp_registry, user_session, turn, remaining>>

\* on_message, normal chat, up to the await of search_servers: the agent is
\* created if the session has none (its mcp_servers is the registry list itself)
OnMessageChat(s) ==
    /\ pc[s] = "idle"
    /\ remaining[s] > 0
    /\ \E content \in ChatRequests :
          /\ turn' = [turn EXCEPT ![s] = [NoTurn EXCEPT !.content = content]]
          /\ out' = [out EXCEPT ![s] = TurnOut("chat", s, content)]
    /\ mcp_registry' = EnsureEntry(mcp_registry, s)
    /\ user_session' = [user_session EXCEPT ![s].agent = <<[mcp_servers_of |-> s]>>]
    /\ pc' = [pc EXCEPT ![s] = "search"]
    /\ remaining' = [remaining EXCEPT ![s] = @ - 1]
    /\ UNCHANGED <<now, mcp_servers_cache, cache_timestamp, cache_call, fn_call, ext,
                   index>>

\* a variant that shows only the first server that passes the filter
NewRecommendations_first(recommended_servers, history, connected_server_names) ==
    Take(Filter(recommended_servers,
                {r \in Range(recommended_servers) :
                    r.name \notin history /\ r.name \notin connected_server_names}), 1)

\* a variant that filters by the history only
NewRecommendations_noconnected(recommended_servers, history, connected_server_names) ==
    Filter(recommended_servers,
           {r \in Range(recommended_servers) : r.name \notin history})

\* mutant: only the connected servers are filtered out
NewRecommendations_nohistory(recommended_servers, history, connected_server_names) ==
    Filter(recommended_servers,
           {r \in Range(recommended_servers) : r.name \notin connected_server_names})

\* new_recommendations of on_message: the recommended servers that are neither
\* in the history nor connected
NewRecommendations(recommended_servers, history, connected_server_names) ==
    Filter(recommended_servers,
           {r \in Range(recommended_servers) :
               r.name \notin history /\ r.name \notin connected_server_names})

\* a variant that keeps only the names of the latest recommendation
MergeHistory_replace(recommended_servers_history, server_names) ==
    Range(server_names)

\* a variant that never stores the history
MergeHistory_unsaved(recommended_servers_history, server_names) ==
    recommended_servers_history

\* recommended_servers_history.add(name) for every name shown, then stored
MergeHistory(recommended_servers_history, server_names) ==
    recommended_servers_history \cup Range(server_names)

\* the "Thinking..." path: Runner.run(agent, message.content) is awaited
StartAgent(s, o) ==
    /\ out' = [out EXCEPT ![s] =
                  [o EXCEPT !.agent_servers = <<AgentServers(user_session[s].agent[1])>>]]
    /\ pc' = [pc EXCEPT ![s] = "run"]
    /\ turn' = [turn EXCEPT ![s].candidate_servers = <<>>]

\* search_servers(user_query, 15) returns or raises; when it raises the
\* candidates are get_mcp_servers(use_cache=True); no candidates: no recommendation
SearchDone(s) ==
    /\ pc[s] = "search"
    /\ \E raised \in BOOLEAN :
        /\ raised => Strip(turn[s].content) # <<>>
        /\ LET got == get_mcp_servers(TRUE, mcp_servers_cache, cache_timestamp, now)
           IN  /\ mcp_servers_cache' = IF raised THEN got.cache ELSE mcp_servers_cache
               /\ cache_timestamp' = IF raised THEN got.stamp ELSE cache_timestamp
               /\ \E candidate_servers \in
                        IF raised THEN {got.ret}
                        ELSE SearchOf(index, turn[s].content) :
                     LET o == [out[s] EXCEPT
                                  !.route = IF raised THEN "fallback" ELSE "search",
                                  !.ncands = Len(candidate_servers)]
                     IN  IF Len(candidate_servers) = 0 THEN
                             StartAgent(s, [o EXCEPT !.path = "empty"])
                         ELSE
                             /\ out' = [out EXCEPT ![s] = o]
                             /\ pc' = [pc EXCEPT ![s] = "rank"]
                             /\ turn' = [turn EXCEPT
                                            ![s].candidate_servers = candidate_servers]
    /\ UNCHANGED <<now, cache_call, fn_call, ext, index, mcp_registry, user_session,
                   remaining>>

\* a variant without the return after the recommendation message: the turn
\* goes on to the agent
RankDone_no_return(s) ==
    /\ pc[s] = "rank"
    /\ \E rec \in RecommendOf(turn[s].candidate_servers) :
          LET new_recommendations ==
                  NewRecommendations(rec.servers, History(s), Range(NamesOf(Conns(s))))
              server_names == NamesOf(new_recommendations)
              o == [out[s] EXCEPT !.path = rec.path,
                                  !.recommended = NamesOf(rec.servers),
                                  !.shown = server_names]
          IN  /\ user_session' =
                    [user_session EXCEPT ![s].recommended_servers =
                        <<MergeHistory(History(s), server_names)>>]
              /\ StartAgent(s, o)
    /\ UNCHANGED <<now, mcp_servers_cache, cache_timestamp, cache_call, fn_call, ext,
                   index, mcp_registry, remaining>>

\* the ranking oracle answers or raises; recommend_servers_intelligent returns;
\* on_message filters the result and either shows recommendations or runs the agent
RankDone(s) ==
    /\ pc[s] = "rank"
    /\ \E rec \in RecommendOf(turn[s].candidate_servers) :
          LET new_recommendations ==
                  NewRecommendations(rec.servers, History(s), Range(NamesOf(Conns(s))))
              server_names == NamesOf(new_recommendations)
              o == [out[s] EXCEPT !.path = rec.path,
                                  !.recommended = NamesOf(rec.servers)]
          IN  IF Len(new_recommendations) > 0 THEN
                  /\ user_session' =
                        [user_session EXCEPT ![s].recommended_servers =
                            <<MergeHistory(History(s), server_names)>>]
                  /\ out' = [out EXCEPT ![s] =
                                [o EXCEPT !.kind = "Recommendation",
                                          !.shown = server_names,
                                          !.shown_turns = @ + 1]]
                  /\ pc' = [pc EXCEPT ![s] = "idle"]
                  /\ turn' = [turn EXCEPT ![s] = NoTurn]
              ELSE
                  /\ StartAgent(s, o)
                  /\ UNCHANGED user_session
    /\ UNCHANGED <<now, mcp_servers_cache, cache_timestamp, cache_call, fn_call, ext,
                   index, mcp_registry, remaining>>

\* Runner.run(agent, message.content) returns (the reply is streamed) or raises
AgentDone(s) ==
    /\ pc[s] = "run"
    /\ \E result \in {"Reply", "AgentError"} :
          out' = [out EXCEPT ![s].kind = result]
    /\ pc' = [pc EXCEPT ![s] = "idle"]
    /\ turn' = [turn EXCEPT ![s] = NoTurn]
    /\ UNCHANGED <<now, mcp_servers_cache, cache_timestamp, cache_call, fn_call, ext,
                   index, mcp_registry, user_session, remaining>>

Next ==
    \/ Tick
    \/ \E s \in Sessions : OnChatStart(s)
    \/ \E s \in Sessions : OnMessageConnect(s)
    \/ \E s \in Sessions : ConnectDone(s)
    \/ \E s \in Sessions : ListToolsDone(s)
    \/ \E s \in Sessions : OnMessageList(s)
    \/ \E s \in Sessions : ListStep(s)
    \/ \E s \in Sessions : OnMessageChat(s)
    \/ \E s \in Sessions : SearchDone(s)
    \/ \E s \in Sessions : RankDone(s)
    \/ \E s \in Sessions : AgentDone(s)

Spec == Init /\ [][Next]_vars


\* ------------------------------------------------------ two live sessions
\* Both users send messages, so the turns of the two sessions interleave at
\* every await. The first user sends one message more than the second.

InitSessions ==
    /\ now = 0
    /\ mcp_servers_cache = <<>>
    /\ cache_timestamp = <<>>
    /\ cache_call = <<>>
    /\ index = <<>>
    /\ mcp_registry = << >>
    /\ user_session = [s \in Sessions |-> [agent |-> <<>>, recommended_servers |-> <<>>]]
    /\ pc = [s \in Sessions |-> "new"]
    /\ turn = [s \in Sessions |-> NoTurn]
    /\ out = [s \in Sessions |-> [NewOut("", s, <<>>) EXCEPT !.kind = "none"]]
    /\ remaining = [s \in Sessions |-> IF s = "s1" THEN MaxTurnsEach + 1 ELSE MaxTurnsEach]
    /\ fn_call = <<>>
    /\ ext = <<>>

SpecSessions == InitSessions /\ [][Next]_vars

\* ------------------------------------------------------- the cache model
\* The cache layer on its own: the clock advances hour by hour and
\* get_mcp_servers is called with either value of use_cache.

CacheTick ==
    /\ now < MaxCacheTime
    /\ now' = now + 1
    /\ UNCHANGED <<mcp_servers_cache, cache_timestamp, cache_call, fn_call, ext, index,
                   mcp_registry, user_session, pc, turn, out, remaining>>

\* a call get_mcp_servers(use_cache); cache_call records the argument, the
\* cache the call found, the time, the result, and the result of the call before
CallGetMcpServers ==
    /\ \E use_cache \in BOOLEAN :
          LET got == get_mcp_servers(use_cache, mcp_servers_cache, cache_timestamp, now)
          IN  /\ mcp_servers_cache' = got.cache
              /\ cache_timestamp' = got.stamp
              /\ cache_call' = <<[use_cache |-> use_cache, cache |-> mcp_servers_cache,
                                  stamp |-> cache_timestamp, at |-> now, ret |-> got.ret,
                                  prev |-> IF cache_call = <<>> THEN <<>>
                                           ELSE <<cache_call[1].ret>>]>>
    /\ UNCHANGED <<now, index, mcp_registry, user_session, pc, turn, out, remaining,
                   fn_call, ext>>

NextCache == CacheTick \/ CallGetMcpServers

SpecCache == Init /\ [][NextCache]_vars


\* ------------------------------------------------- the ranking step alone
\* recommend_servers_intelligent after its search: any list of distinct catalog
\* entries as candidates, any of the oracle's answers or its exception.

\* the lists of n distinct elements of S
RECURSIVE ArrangementsOf(_, _)
ArrangementsOf(S, n) ==
    IF n = 0 THEN {<<>>}
    ELSE {Append(q, x) : <<q, x>> \in
             {y \in ArrangementsOf(S, n - 1) \X S : y[2] \notin Range(y[1])}}

\* the lists of distinct elements of S
Arrangements(S) == UNION {ArrangementsOf(S, n) : n \in 0..Cardinality(S)}

CandidateLists == Arrangements(Range(Catalog))

\* the one call of the ranking step a behaviour makes; fn_call records its
\* inputs and what it returned
CallRecommend ==
    /\ fn_call = <<>>
    /\ \E candidate_servers \in CandidateLists :
          \E raised \in BOOLEAN :
            \E text \in IF Len(candidate_servers) = 0 \/ raised THEN {<<>>}
                         ELSE OracleTexts(candidate_servers) :
               /\ Len(candidate_servers) = 0 => ~raised
               /\ fn_call' = <<[fn |-> "recommend",
                                candidate_servers |-> candidate_servers,
                                raised |-> raised, text |-> text,
                                ret |-> rank_candidates(candidate_servers, raised, text)]>>
    /\ UNCHANGED <<now, mcp_servers_cache, cache_timestamp, cache_call, ext, index,
                   mcp_registry, user_session, pc, turn, out, remaining>>

NextRecommend == CallRecommend

SpecRecommend == Init /\ [][NextRecommend]_vars


\* ------------------------------------------------ search_servers alone
\* search_servers on indexes of every size up to MaxIndex, so that the ceiling
\* of 30 is reached; the index is a persistent collection and may hold more
\* servers than the local list.

Digits == <<"0","1","2","3","4","5","6","7","8","9">>

\* the i-th server stored in such an index
NumberedServer(i) ==
    [name |-> <<"s", Digits[(i \div 10) + 1], Digits[(i % 10) + 1]>>, type |-> "stdio"]

IndexOfSize(n) == store_servers(<<>>, [i \in 1..n |-> NumberedServer(i)])

\* the indexes, computed once
Indexes == [n \in 0..MaxIndex |-> IndexOfSize(n)]

\* the queries and the values of n_results tried
SearchQueries == {<<>>, <<" ">>, <<" ", " ">>, <<"d","b">>, <<" ","d","b"," ">>}
SearchCounts == {1, 15, 29, 30, 31, 40}

\* the one call of search_servers a behaviour makes
CallSearch ==
    /\ fn_call = <<>>
    /\ \E n \in 0..MaxIndex, query \in SearchQueries, n_results \in SearchCounts :
          \E ret \in search_servers(Indexes[n], query, n_results) :
             fn_call' = <<[fn |-> "search", stored |-> n, query |-> query,
                           n_results |-> n_results,
                           asked |-> QueryAsked(query, n_results), ret |-> ret]>>
    /\ UNCHANGED <<now, mcp_servers_cache, cache_timestamp, cache_call, ext, index,
                   mcp_registry, user_session, pc, turn, out, remaining>>

NextSearch == CallSearch

SpecSearch == Init /\ [][NextSearch]_vars


\* ------------------------------------------------- store_servers alone
\* store_servers called once and twice with the same list, on an empty index,
\* on the populated one, and on one that holds a differently written name.

\* the servers the stored lists are made of: catalog entries, names in other
\* letter cases, the name with a space, and a server without a name
StorePool ==
    {Catalog[1], Catalog[2], get_local_mcp_servers[12],
     [name |-> Upper(Catalog[1].name), type |-> "stdio"],
     [name |-> <<"P","o","s","t","g","r","e","s","q","l"," ","M","C","P">>,
      type |-> "stdio"],
     [name |-> <<>>, type |-> "stdio"]}

\* the lists stored: up to MaxStoreLen servers, no two with the same id (one
\* upsert call does not take the same id twice)
StoreLists ==
    {l \in UNION {ArrangementsOf(StorePool, n) : n \in 0..MaxStoreLen} :
        \A i, j \in 1..Len(l) :
            (i # j /\ Slug(l[i].name) # <<>>) => Slug(l[i].name) # Slug(l[j].name)}

StoreIndexes ==
    {<<>>, FullIndex,
     store_servers(<<>>, <<[name |-> Upper(Catalog[1].name), type |-> "stdio"]>>)}

\* the one pair of calls of store_servers a behaviour makes
CallStore ==
    /\ fn_call = <<>>
    /\ \E idx \in StoreIndexes, servers \in StoreLists :
          LET once == store_servers(idx, servers)
          IN  fn_call' = <<[fn |-> "store", idx |-> idx, servers |-> servers,
                            once |-> once, twice |-> store_servers(once, servers)]>>
    /\ UNCHANGED <<now, mcp_servers_cache, cache_timestamp, cache_call, ext, index,
                   mcp_registry, user_session, pc, turn, out, remaining>>

NextStore == CallStore

SpecStore == Init /\ [][NextStore]_vars


\* ------------------------------------------ the connect command alone
\* on_message and connect_mcp_server up to the lookup, for the command
\* "connect <name>" of every entry of the local list, typed in several letter
\* cases, with one or two spaces after the command word and with or without
\* spaces around the message.

CaseModes == {"lower", "upper", "title", "odd", "even"}

\* str written in the given letter case
Cased(str, mode) ==
    [i \in 1..Len(str) |->
        IF \/ mode = "upper"
           \/ mode = "title" /\ (i = 1 \/ str[i - 1] \in {" ", "-"})
           \/ mode = "odd" /\ i % 2 = 1
           \/ mode = "even" /\ i % 2 = 0
        THEN UpperChar(str[i]) ELSE str[i]]

Spaces(n) == [i \in 1..n |-> " "]

\* the message typed to connect the server called name
ConnectCommand(name, mode, gap, pad) ==
    Spaces(pad) \o Cased(<<"c","o","n","n","e","c","t">> \o Spaces(gap) \o name, mode)
                \o Spaces(pad)

CallConnect ==
    /\ fn_call = <<>>
    /\ \E i \in 1..Len(get_local_mcp_servers), mode \in CaseModes,
          gap \in 1..2, pad \in 0..1 :
          LET content == ConnectCommand(get_local_mcp_servers[i].name, mode, gap, pad)
              branch == Dispatch(content)
              server_name == IF branch = "connect" THEN <<ServerNameOf(content)>> ELSE <<>>
              target == IF server_name = <<>> THEN <<>>
                        ELSE FindTarget(get_local_mcp_servers, server_name[1])
          IN  fn_call' = <<[fn |-> "connect", entry |-> i, content |-> content,
                            user_text |-> UserText(content), branch |-> branch,
                            server_name |-> server_name, target |-> target]>>
    /\ UNCHANGED <<now, mcp_servers_cache, cache_timestamp, cache_call, ext, index,
                   mcp_registry, user_session, pc, turn, out, remaining>>

NextConnect == CallConnect

SpecConnect == Init /\ [][NextConnect]_vars


\* ------------------------------------------- the extended cache variant
\* get_mcp_servers of src/app.py: the local list, then the servers discovered
\* on the npm registry that the local list does not name. Two callers; a call
\* that rebuilds with include_npm waits for the registry, and the other caller
\* may run meanwhile.

Callers == {"a", "b"}

\* str.replace(old, new) for a non-empty old
RECURSIVE ReplaceAll(_, _, _)
ReplaceAll(str, old, new) ==
    IF Len(str) = 0 THEN <<>>
    ELSE IF StartsWith(str, old)
         THEN new \o ReplaceAll(SubSeq(str, Len(old) + 1, Len(str)), old, new)
         ELSE <<Head(str)>> \o ReplaceAll(Tail(str), old, new)

\* get_local_mcp_servers of src/app.py; "curated" stands for the description,
\* command and url written in the file
app_get_local_mcp_servers == <<
    [name |-> <<"f","e","t","c","h">>,
     description |-> "curated"],
    [name |-> <<"s","q","l","i","t","e">>,
     description |-> "curated"],
    [name |-> <<"t","i","m","e">>,
     description |-> "curated"],
    [name |-> <<"f","i","l","e","s","y","s","t","e","m">>,
     description |-> "curated"],
    [name |-> <<"g","i","t","h","u","b">>,
     description |-> "curated"],
    [name |-> <<"b","r","a","v","e","-","s","e","a","r","c","h">>,
     description |-> "curated"],
    [name |-> <<"p","o","s","t","g","r","e","s">>,
     description |-> "curated"],
    [name |-> <<"s","l","a","c","k">>,
     description |-> "curated"] >>

npm_packages == <<
    <<"m","c","p","-","s","e","r","v","e","r","-","f","e","t","c","h">>,
    <<"m","c","p","-","s","e","r","v","e","r","-","s","q","l","i","t","e">>,
    <<"m","c","p","-","s","e","r","v","e","r","-","t","i","m","e">>,
    <<"m","c","p","-","s","e","r","v","e","r","-","g","i","t","h","u","b">>,
    <<"m","c","p","-","s","e","r","v","e","r","-","b","r","a","v","e","-","s","e","a","r","c","h">>,
    <<"m","c","p","-","s","e","r","v","e","r","-","p","o","s","t","g","r","e","s">>,
    <<"m","c","p","-","s","e","r","v","e","r","-","s","l","a","c","k">>,
    <<"m","c","p","-","s","e","r","v","e","r","-","f","i","l","e","s","y","s","t","e","m">> >>

PackagePrefix == <<"m","c","p","-","s","e","r","v","e","r","-">>

\* the entry discover_mcp_servers_from_npm appends for a package it found;
\* "registry" stands for the description read from the registry
NpmEntry(package) ==
    [name |-> ReplaceAll(package, PackagePrefix, <<>>), description |-> "registry"]

\* what discover_mcp_servers_from_npm may return: the entries of the packages
\* whose lookup succeeded, in the order of npm_packages (a lookup that fails or
\* raises is skipped; the packages after the first MaxPackages always fail)
DiscoverResults ==
    LET probed == Take(npm_packages, MaxPackages)
        entries == [i \in 1..Len(probed) |-> NpmEntry(probed[i])]
    IN  {Filter(entries, S) : S \in SUBSET Range(entries)}

\* a variant that appends every discovered server
MergeDiscovered_all(servers, npm_servers) == servers \o npm_servers

\* the merge loop: existing_names is taken once, from the servers so far
MergeDiscovered(servers, npm_servers) ==
    LET existing_names == {Lower(servers[i].name) : i \in 1..Len(servers)}
    IN  servers \o Filter(npm_servers,
                          {x \in Range(npm_servers) : Lower(x.name) \notin existing_names})

\* the merge of each possible discovery into the local list, computed once
MergeTable ==
    [d \in DiscoverResults |-> MergeDiscovered(app_get_local_mcp_servers, d)]

MergeOf(servers, npm_servers) ==
    IF servers = app_get_local_mcp_servers /\ npm_servers \in DOMAIN MergeTable
    THEN MergeTable[npm_servers] ELSE MergeDiscovered(servers, npm_servers)

\* a caller that has made no call yet. Of a call are kept: its arguments, the
\* list under construction, what was discovered, what it returned, whether it
\* began while another rebuild was waiting (overlap), and for a rebuild the
\* time it stored the snapshot (at) and its place among all the stores (seq)
NoCall ==
    [pc |-> "idle", use_cache |-> FALSE, include_npm |-> FALSE, rebuilt |-> FALSE,
     servers |-> <<>>, discovered |-> <<>>, ret |-> <<>>,
     overlap |-> FALSE, at |-> 0, seq |-> 0]

\* stores counts the assignments to the cache so far
ExtStart ==
    [cache |-> <<>>, stamp |-> <<>>,
     calls |-> [c \in Callers |-> NoCall],
     left |-> [c \in Callers |-> MaxCalls],
     stores |-> 0]

InitExt ==
    /\ now = 0
    /\ mcp_servers_cache = <<>>
    /\ cache_timestamp = <<>>
    /\ cache_call = <<>>
    /\ index = <<>>
    /\ mcp_registry = << >>
    /\ user_session = [s \in Sessions |-> [agent |-> <<>>, recommended_servers |-> <<>>]]
    /\ pc = [s \in Sessions |-> "new"]
    /\ turn = [s \in Sessions |-> NoTurn]
    /\ out = [s \in Sessions |-> [NewOut("", s, <<>>) EXCEPT !.kind = "none"]]
    /\ remaining = [s \in Sessions |-> 0]
    /\ fn_call = <<>>
    /\ ext = ExtStart

\* a variant in which a rebuild that began while another was waiting leaves
\* the snapshot and the stamp of the one that finished first
ExtStore_first_wins(c, call, servers) ==
    [ext EXCEPT !.cache = IF ext.cache # <<>> /\ ext.stores > 0 THEN @ ELSE <<servers>>,
                !.stamp = IF ext.cache # <<>> /\ ext.stores > 0 THEN @ ELSE <<now>>,
                !.stores = @ + 1,
                !.calls[c] = [call EXCEPT !.pc = "idle", !.rebuilt = TRUE,
                                          !.servers = <<>>, !.ret = <<servers>>,
                                          !.at = now, !.seq = ext.stores + 1]]

\* the cache is replaced by the finished list and stamped; the call returns it
ExtStore(c, call, servers) ==
    [ext EXCEPT !.cache = <<servers>>, !.stamp = <<now>>,
                !.stores = @ + 1,
                !.calls[c] = [call EXCEPT !.pc = "idle", !.rebuilt = TRUE,
                                          !.servers = <<>>, !.ret = <<servers>>,
                                          !.at = now, !.seq = ext.stores + 1]]

\* caller c calls get_mcp_servers(use_cache, include_web=False, include_npm):
\* a fresh snapshot is returned; otherwise the local list is taken and, with
\* include_npm, the call waits for the registry
ExtCall(c) ==
    /\ ext.calls[c].pc = "idle"
    /\ ext.left[c] > 0
    /\ \E use_cache \in BOOLEAN, include_npm \in BOOLEAN :
          LET call == [NoCall EXCEPT
                          !.use_cache = use_cache, !.include_npm = include_npm,
                          !.overlap = \E d \in Callers \ {c} : ext.calls[d].pc = "npm"]
              e == [ext EXCEPT !.left[c] = @ - 1]
          IN  IF CacheFresh(use_cache, ext.cache, ext.stamp, now) THEN
                  ext' = [e EXCEPT !.calls[c] = [call EXCEPT !.ret = ext.cache]]
              ELSE IF include_npm THEN
                  ext' = [e EXCEPT !.calls[c] =
                             [call EXCEPT !.pc = "npm",
                                          !.servers = app_get_local_mcp_servers]]
              ELSE
                  ext' = [ExtStore(c, call, app_get_local_mcp_servers)
                             EXCEPT !.left[c] = @ - 1]
    /\ UNCHANGED <<now, mcp_servers_cache, cache_timestamp, cache_call, fn_call, index,
                   mcp_registry, user_session, pc, turn, out, remaining>>

\* discover_mcp_servers_from_npm returns (or raises, and nothing is merged);
\* the rest of the call runs without another await
ExtNpmDone(c) ==
    /\ ext.calls[c].pc = "npm"
    /\ \E raised \in BOOLEAN :
          \E npm_servers \in IF raised THEN {<<>>} ELSE DiscoverResults :
             LET call == [ext.calls[c] EXCEPT !.discovered = npm_servers]
             IN  ext' = ExtStore(c, call, MergeOf(call.servers, npm_servers))
    /\ UNCHANGED <<now, mcp_servers_cache, cache_timestamp, cache_call, fn_call, index,
                   mcp_registry, user_session, pc, turn, out, remaining>>

NextExt ==
    \/ Tick
    \/ \E c \in Callers : ExtCall(c)
    \/ \E c \in Callers : ExtNpmDone(c)

SpecExt == InitExt /\ [][NextExt]_vars


\* ================================================================ claims
IsPrefix(a, b) == Len(a) <= Len(b) /\ SubSeq(b, 1, Len(a)) = a

\* the age of the snapshot a recorded call found was below the TTL
FoundFresh(c) == CacheSet(c.cache, c.stamp) /\ c.at - c.stamp[1] < cache_ttl

\* C1: whenever connect_mcp_server ends in a failure, whatever failed inside
\* the guarded block, the session's connection list is what it was before the call.
C1_FailedConnectLeavesConnections ==
    \A s \in Sessions :
        (pc[s] = "idle" /\ out[s].kind = "ConnectFailed") => Conns(s) = out[s].before

\* C2: a connect turn for a name that is already in the session's connections
\* ends AlreadyConnected, makes no connection attempt and leaves the number of
\* connections unchanged.
C2_SecondConnectIsNoOp ==
    \A s \in Sessions :
        (/\ out[s].branch = "connect"
         /\ out[s].server_name \in Range(NamesOf(out[s].before)))
        => /\ out[s].kind = "AlreadyConnected"
           /\ out[s].attempts = 0
           /\ Len(Conns(s)) = Len(out[s].before)

C2_Witness ==
    \E s \in Sessions :
        /\ out[s].kind = "AlreadyConnected"
        /\ Len(out[s].before) = 1
        /\ user_session[s].agent = <<>>

\* C3: a connect turn whose transport connect timed out ends ConnectFailed and
\* the session's connections are exactly what they were before the turn,
\* whatever the transport of the target.
C3_TimeoutAddsNothing ==
    \A s \in Sessions :
        out[s].failure = "timeout"
        => /\ out[s].kind = "ConnectFailed"
           /\ Conns(s) = out[s].before
           /\ out[s].server_name \notin Range(NamesOf(Conns(s)))

C3_Witness ==
    \E s \in Sessions :
        /\ out[s].failure = "timeout"
        /\ out[s].attempts = 1
        /\ Len(out[s].before) = 1

\* C4: no name that was in the session's recommendation history when a chat
\* turn began is among the recommendations that turn presents.
C4_NoRepeatedRecommendation ==
    \A s \in Sessions : Range(out[s].shown) \cap out[s].history_before = {}

C4_Witness ==
    \E s \in Sessions :
        /\ out[s].kind = "Recommendation"
        /\ Range(out[s].recommended) \cap out[s].history_before # {}
        /\ Len(out[s].shown) > 0

\* C5: recommend_servers_intelligent returns at most 3 entries on every path,
\* and a turn shows at most 3 recommendations.
C5_AtMostThree ==
    \A s \in Sessions : Len(out[s].recommended) <= 3 /\ Len(out[s].shown) <= 3

C5_Witness ==
    \E s \in Sessions :
        /\ out[s].route = "fallback"
        /\ out[s].path = "matched"
        /\ out[s].ncands > 3
        /\ Len(out[s].recommended) = 3
        /\ Len(out[s].shown) = 3

\* C6: a connect turn for a name that equals no name of the catalog snapshot
\* ends NotFound, makes no connection attempt and leaves the connections unchanged.
C6_UnknownNameNotFound ==
    \A s \in Sessions :
        (/\ out[s].branch = "connect"
         /\ mcp_servers_cache # <<>>
         /\ out[s].server_name \notin Range(NamesOf(mcp_servers_cache[1])))
        => /\ out[s].kind = "NotFound"
           /\ out[s].attempts = 0
           /\ Conns(s) = out[s].before

C6_Witness ==
    \E s \in Sessions :
        /\ out[s].kind = "NotFound"
        /\ out[s].server_name = PartialName
        /\ Len(Conns(s)) = 1

\* C7: a call with use_cache=True that finds a snapshot younger than the TTL
\* returns that snapshot, which is what the call before it returned, and leaves
\* the stored snapshot and its timestamp as they were.
C7_FreshSnapshotReturned ==
    cache_call # <<>> =>
        LET c == cache_call[1]
        IN  (c.use_cache /\ FoundFresh(c))
            => /\ c.ret = c.cache[1]
               /\ c.prev # <<>> /\ c.ret = c.prev[1]
               /\ mcp_servers_cache = c.cache
               /\ cache_timestamp = c.stamp

C7_Witness ==
    /\ cache_call # <<>>
    /\ cache_call[1].use_cache
    /\ FoundFresh(cache_call[1])
    /\ cache_call[1].at = cache_call[1].stamp[1] + cache_ttl - 1

\* C8: a call with use_cache=False, or that finds no snapshot, or a snapshot
\* whose age is at least the TTL, returns the list built from the catalog, and
\* that list is the stored snapshot, stamped with the time of the call.
C8_RebuildReplacesSnapshot ==
    cache_call # <<>> =>
        LET c == cache_call[1]
        IN  (~c.use_cache \/ ~FoundFresh(c))
            => /\ c.ret = Catalog
               /\ mcp_servers_cache = <<c.ret>>
               /\ cache_timestamp = <<c.at>>

C8_Witness ==
    /\ cache_call # <<>>
    /\ cache_call[1].use_cache
    /\ cache_call[1].stamp # <<>>
    /\ cache_call[1].at = cache_call[1].stamp[1] + cache_ttl
    /\ cache_timestamp = <<cache_call[1].at>>

\* C9: a session's connection list never holds two handles with the same name.
C9_OneHandlePerName ==
    \A s \in Sessions :
        \A i, j \in 1..Len(Conns(s)) : i # j => Conns(s)[i].name # Conns(s)[j].name

C9_Witness ==
    \E s \in Sessions :
        /\ Len(Conns(s)) = 2
        /\ out[s].kind = "ConnectFailed"
        /\ out[s].failure = "connect_error"

\* C10: in every step the connection list of every session keeps the handles
\* it had, in place, and gains at most one.
C10_ConnectionsOnlyGrow ==
    [][\A s \in Sessions :
          /\ IsPrefix(Conns(s), Conns(s)')
          /\ Len(Conns(s)') <= Len(Conns(s)) + 1]_vars

C10_Witness ==
    \E s \in Sessions :
        /\ Len(Conns(s)) = 2
        /\ out[s].branch = "chat"
        /\ out[s].kind = "Reply"

\* C11: the recommendation history of a session only grows: at every moment it
\* is the history the current (or last) turn started with plus the names that
\* turn has shown, so a turn that shows recommendations ends with exactly the
\* old history united with the names shown, and every other turn leaves it as
\* it was.
C11_HistoryGrowsByShown ==
    \A s \in Sessions :
        /\ out[s].history_before \subseteq History(s)
        /\ History(s) = out[s].history_before \cup Range(out[s].shown)
        /\ out[s].kind = "Recommendation" <=> out[s].shown # <<>>

C11_Witness ==
    \E s \in Sessions :
        /\ out[s].kind = "Recommendation"
        /\ out[s].history_before # {}
        /\ Range(out[s].shown) \cap out[s].history_before = {}
        /\ Cardinality(History(s)) > Cardinality(out[s].history_before)

\* C12: the names a chat turn shows as recommendations contain no name of a
\* server in the session's connection list, whether or not that server was
\* ever recommended before.
C12_ConnectedNeverShown ==
    \A s \in Sessions :
        Range(out[s].shown) \cap Range(NamesOf(Conns(s))) = {}

C12_Witness ==
    \E s \in Sessions :
        /\ out[s].kind = "Recommendation"
        /\ \E n \in Range(out[s].recommended) :
              /\ n \in Range(NamesOf(Conns(s)))
              /\ n \notin out[s].history_before
              /\ n \notin Range(out[s].shown)

\* C14: when the similarity search raised, the candidates the oracle is asked
\* to rank are the cache layer's whole snapshot; when there are no candidates
\* the engine returns nothing and the oracle is never asked; and a blank query
\* takes the search route (no exception) with no candidates.
C14_FallbackCandidatesAndEmpty ==
    \A s \in Sessions :
        /\ (pc[s] = "rank" /\ out[s].route = "fallback") =>
              /\ mcp_servers_cache # <<>>
              /\ turn[s].candidate_servers = mcp_servers_cache[1]
              /\ turn[s].candidate_servers = Catalog
        /\ (out[s].route # "" /\ out[s].ncands = 0) =>
              /\ pc[s] # "rank"
              /\ out[s].path = "empty"
              /\ out[s].recommended = <<>>
              /\ out[s].shown = <<>>
        /\ out[s].path = "empty" => out[s].ncands = 0
        /\ (pc[s] \in {"rank", "run"} /\ Strip(turn[s].content) = <<>>) =>
              /\ out[s].route = "search"
              /\ out[s].ncands = 0

C14_Witness ==
    \E s \in Sessions :
        /\ pc[s] = "rank"
        /\ out[s].route = "fallback"
        /\ Len(index) = 0
        /\ Len(turn[s].candidate_servers) = CatalogSize

\* C16: whenever a chat turn has invoked the agent runtime, the servers the
\* agent was given are the session's connection list as it is then, and a
\* connect turn that succeeded leaves the session without a cached agent.
C16_AgentSeesConnections ==
    \A s \in Sessions :
        /\ out[s].agent_servers # <<>> =>
              /\ out[s].agent_servers[1] = Conns(s)
              /\ out[s].branch = "chat"
        /\ pc[s] = "run" => out[s].agent_servers # <<>>
        /\ out[s].kind \in {"Reply", "AgentError"} => out[s].agent_servers # <<>>
        /\ out[s].kind = "Connected" => user_session[s].agent = <<>>

C16_Witness ==
    \E s \in Sessions :
        /\ out[s].kind = "Reply"
        /\ Len(Conns(s)) = 2
        /\ out[s].agent_servers = <<Conns(s)>>

\* C17: a list turn that has ended either reported that nothing is connected
\* (and nothing is) or produced one line per connected server, in the order of
\* the connection list; while it runs, the lines written are those of the
\* first servers of the list. A line says "unavailable" only for the server
\* whose query failed, and the servers after it are still listed.
C17_OneLinePerConnection ==
    \A s \in Sessions :
        out[s].branch = "list" =>
            /\ IsPrefix(NamesOf(out[s].lines), NamesOf(Conns(s)))
            /\ pc[s] = "listing" => Len(out[s].lines) < Len(Conns(s))
            /\ pc[s] = "idle" =>
                  \/ out[s].kind = "NoServers" /\ Conns(s) = <<>> /\ out[s].lines = <<>>
                  \/ /\ out[s].kind = "Listing"
                     /\ Conns(s) # <<>>
                     /\ NamesOf(out[s].lines) = NamesOf(Conns(s))

C17_Witness ==
    \E s \in Sessions :
        /\ out[s].kind = "Listing"
        /\ Len(out[s].lines) = 2
        /\ out[s].lines[1].tools = "unavailable"
        /\ out[s].lines[2].tools = "count"

\* C13: when the oracle raises, the ranking step still returns a list: the
\* first three candidates, or all of them when there are fewer, in the order
\* of the candidates.
C13_OracleErrorReturnsFirstThree ==
    (fn_call # <<>> /\ fn_call[1].fn = "recommend" /\ fn_call[1].raised) =>
        LET c == fn_call[1].candidate_servers
            r == fn_call[1].ret.servers
        IN  /\ fn_call[1].ret.path = "oracle_error"
            /\ Len(r) = (IF Len(c) < 3 THEN Len(c) ELSE 3)
            /\ \A i \in 1..Len(r) : r[i] = c[i]

C13_Witness ==
    /\ fn_call # <<>>
    /\ fn_call[1].fn = "recommend"
    /\ fn_call[1].raised
    /\ Len(fn_call[1].candidate_servers) = 4
    /\ Len(fn_call[1].ret.servers) = 3

\* the tokens of an oracle answer: its comma-separated parts, trimmed, lower-cased
AnswerTokens(text) ==
    LET parts == Split(text, ",")
    IN  {Lower(Strip(parts[i])) : i \in 1..Len(parts)}

\* C15: when the oracle's answer is the token "none", or no token of the answer
\* is the lower-cased name of a candidate, the ranking step returns the first
\* three candidates; otherwise it returns the candidates whose lower-cased
\* name is one of the tokens, in candidate order, at most three.
C15_NoneOrMatchedTokens ==
    (fn_call # <<>> /\ fn_call[1].fn = "recommend" /\ ~fn_call[1].raised
        /\ Len(fn_call[1].candidate_servers) > 0) =>
        LET c == fn_call[1].candidate_servers
            r == fn_call[1].ret.servers
            tokens == AnswerTokens(fn_call[1].text)
            matched == Filter(c, {x \in Range(c) : Lower(x.name) \in tokens})
        IN  IF tokens = {NoneToken} \/ matched = <<>>
            THEN r = Take(c, 3)
            ELSE r = Take(matched, 3)

\* the branch the wording of C18 gives each message: the message is read
\* without surrounding blanks and in lower case
ExpectedBranch ==
    [m \in Messages |->
        IF StartsWith(Lower(Strip(m)), ConnectPrefix) THEN "connect"
        ELSE IF Lower(Strip(m)) \in ListPhrases THEN "list"
        ELSE "chat"]

\* C18: a message takes exactly one branch, decided by its text: "connect "
\* and a name (in any letter case) is a connect turn, which never searches,
\* asks the oracle or runs the agent and leaves the history alone; one of the
\* four list phrases is a list turn, which never touches the connection list,
\* the history or the cached agent; any other message is a chat turn, which
\* goes through the recommendation steps and ends with a recommendation or
\* with the agent's reply.
C18_DispatchExclusive ==
    /\ [](\A s \in Sessions :
            out[s].branch # "" =>
              /\ out[s].branch = ExpectedBranch[out[s].content]
              /\ out[s].branch = "connect" =>
                    /\ pc[s] \in {"idle", "connect", "list_tools"}
                    /\ out[s].route = "" /\ out[s].path = ""
                    /\ out[s].recommended = <<>> /\ out[s].shown = <<>>
                    /\ out[s].agent_servers = <<>> /\ out[s].lines = <<>>
                    /\ History(s) = out[s].history_before
              /\ out[s].branch = "list" =>
                    /\ pc[s] \in {"idle", "listing"}
                    /\ out[s].attempts = 0
                    /\ out[s].route = "" /\ out[s].path = ""
                    /\ out[s].agent_servers = <<>>
                    /\ Conns(s) = out[s].before
                    /\ History(s) = out[s].history_before
              /\ out[s].branch = "chat" =>
                    /\ pc[s] \in {"idle", "search", "rank", "run"}
                    /\ out[s].attempts = 0 /\ out[s].lines = <<>>
                    /\ Conns(s) = out[s].before
                    /\ pc[s] # "search" => out[s].route # ""
                    /\ pc[s] = "idle" =>
                          out[s].kind \in {"Recommendation", "Reply", "AgentError"})
    /\ [][\A s \in Sessions :
            out'[s].branch = "list" =>
                /\ user_session'[s] = user_session[s]
                /\ Conns(s)' = Conns(s)]_vars

C18_Witness ==
    \E s \in Sessions :
        /\ out[s].branch = "list"
        /\ out[s].kind = "Listing"
        /\ out[s].content \notin ListPhrases
        /\ user_session[s].agent # <<>>
        /\ History(s) # {}

\* session t took the step: some part of its turn state changed
Acted(t) ==
    \/ pc'[t] # pc[t]
    \/ out'[t] # out[t]
    \/ turn'[t] # turn[t]
    \/ remaining'[t] # remaining[t]

\* C19: with the turns of two sessions interleaved at every await, a step that
\* changes the connection list or the recommendation history of a session is a
\* step of that session's own turn and of no other session; and what a turn
\* reports is read from its own session: "already connected" only for a name in
\* its own list, a connect attempt only for a name not in it, lines and agent
\* servers from its own list, and nothing shown that is in its own history or
\* its own list.
C19_SessionsIsolated ==
    /\ [][\A s \in Sessions :
            (Conns(s)' # Conns(s) \/ History(s)' # History(s)
                \/ user_session'[s] # user_session[s]) =>
                /\ Acted(s)
                /\ \A t \in Sessions \ {s} : ~Acted(t)]_vars
    /\ [](\A s \in Sessions :
            /\ out[s].kind = "AlreadyConnected" =>
                  out[s].server_name \in Range(NamesOf(out[s].before))
            /\ out[s].attempts > 0 =>
                  out[s].server_name \notin Range(NamesOf(out[s].before))
            /\ IsPrefix(NamesOf(out[s].lines), NamesOf(Conns(s)))
            /\ out[s].agent_servers # <<>> => out[s].agent_servers[1] = Conns(s)
            /\ Range(out[s].shown) \cap Range(NamesOf(Conns(s))) = {}
            /\ Range(out[s].shown) \cap out[s].history_before = {})

C19_Witness ==
    /\ pc["s1"] = "list_tools"
    /\ pc["s2"] = "rank"
    /\ Len(Conns("s1")) = 2
    /\ Conns("s2") = <<>>
    /\ out["s1"].server_name \in Range(NamesOf(turn["s2"].candidate_servers))

\* the lower-cased names of the local list of the extended variant
LocalLowerNames ==
    {Lower(app_get_local_mcp_servers[i].name) : i \in 1..Len(app_get_local_mcp_servers)}

\* C20: a call of the extended get_mcp_servers that rebuilt the snapshot
\* returns the local list, entry for entry and in order, followed by the
\* discovered entries whose lower-cased name is the lower-cased name of no
\* local entry, in the order discovered; so no local entry is replaced by a
\* discovered one.
C20_LocalThenNewDiscovered ==
    \A c \in Callers :
        (ext.calls[c].pc = "idle" /\ ext.calls[c].rebuilt) =>
            LET local == app_get_local_mcp_servers
                ret == ext.calls[c].ret[1]
                found == ext.calls[c].discovered
                local_names == LocalLowerNames
                fresh == {i \in 1..Len(found) : Lower(found[i].name) \notin local_names}
            IN  /\ Len(ret) = Len(local) + Cardinality(fresh)
                /\ SubSeq(ret, 1, Len(local)) = local
                /\ \A i \in 1..Len(ret) :
                      i > Len(local) =>
                         /\ ret[i] \in {found[j] : j \in fresh}
                         /\ \A k \in 1..Len(ret) :
                               Lower(ret[k].name) = Lower(ret[i].name) => k = i
                /\ \A j \in fresh : \E i \in (Len(local) + 1)..Len(ret) : ret[i] = found[j]

C20_Witness ==
    \E c \in Callers :
        /\ ext.calls[c].pc = "idle"
        /\ ext.calls[c].rebuilt
        /\ ext.calls[c].include_npm
        /\ Len(ext.calls[c].discovered) = 3
        /\ ext.calls[c].ret = <<app_get_local_mcp_servers>>
        /\ ext.cache = ext.calls[c].ret

\* C21: rebuilds may overlap, each waiting for the registry. Whenever the
\* snapshot is set it is the whole list returned by the rebuild that stored
\* last, and its stamp is the time that rebuild stored it; so after two
\* overlapping rebuilds have finished the snapshot and the stamp are those of
\* the one that finished last. A call that returns the stored snapshot
\* (use_cache=True, nothing rebuilt) returns a finished list: the whole local
\* list followed by the merged entries, never the list a waiting rebuild is
\* still building.
C21_LastRebuildWins ==
    /\ (ext.cache = <<>>) <=> (ext.stores = 0)
    /\ (ext.stamp = <<>>) <=> (ext.stores = 0)
    /\ \A c \in Callers :
          LET call == ext.calls[c]
          IN  /\ (call.rebuilt /\ call.seq = ext.stores) =>
                    /\ ext.cache = call.ret
                    /\ ext.stamp = <<call.at>>
              /\ (call.pc = "idle" /\ ~call.rebuilt /\ call.ret # <<>>) =>
                    /\ call.use_cache
                    /\ Len(call.ret[1]) >= Len(app_get_local_mcp_servers)
                    /\ SubSeq(call.ret[1], 1, Len(app_get_local_mcp_servers))
                          = app_get_local_mcp_servers
              /\ call.pc = "npm" => call.ret = <<>>

C21_Witness ==
    \E c, d \in Callers :
        /\ c # d
        /\ ext.calls[c].rebuilt /\ ext.calls[d].rebuilt
        /\ ext.calls[c].pc = "idle" /\ ext.calls[d].pc = "idle"
        /\ ext.calls[d].overlap
        /\ ext.calls[c].seq = 1 /\ ext.calls[c].at = 0
        /\ ext.calls[d].seq = 2 /\ ext.calls[d].at = cache_ttl
        /\ ext.stores = 2
        /\ ext.stamp = <<cache_ttl>>

\* C22: a chat turn that has passed the recommendation step has done exactly
\* one of two things. If some name returned by the recommendation engine is
\* neither in the history the turn started with nor connected, the turn has
\* ended with a recommendation message and the agent was not invoked.
\* Otherwise nothing was shown and the agent was invoked with the session's
\* connection list.
C22_RecommendationOrAgent ==
    \A s \in Sessions :
        (out[s].branch = "chat" /\ pc[s] \in {"run", "idle"}) =>
            LET surviving ==
                    {n \in Range(out[s].recommended) :
                        n \notin out[s].history_before
                        /\ n \notin Range(NamesOf(out[s].before))}
            IN  IF surviving # {} THEN
                    /\ pc[s] = "idle"
                    /\ out[s].kind = "Recommendation"
                    /\ Range(out[s].shown) = surviving
                    /\ out[s].agent_servers = <<>>
                ELSE
                    /\ out[s].kind \in {"pending", "Reply", "AgentError"}
                    /\ out[s].shown = <<>>
                    /\ out[s].agent_servers = <<Conns(s)>>
                    /\ pc[s] = "idle" <=> out[s].kind # "pending"

C22_Witness ==
    \E s \in Sessions :
        /\ out[s].branch = "chat"
        /\ out[s].kind = "Reply"
        /\ Len(out[s].recommended) = 3
        /\ out[s].shown = <<>>
        /\ Len(Conns(s)) = 1
        /\ out[s].agent_servers = <<Conns(s)>>

\* C23: search_servers returns the empty list for an empty or blank query
\* and does not query the collection; for any other query it asks the
\* collection for the smaller of n_results and 30 and returns that many
\* entries (all of them when fewer are stored), so never more than 30.
C23_BlankOrClamped ==
    (fn_call # <<>> /\ fn_call[1].fn = "search") =>
        LET c == fn_call[1]
            blank == \A i \in 1..Len(c.query) : c.query[i] \in Whitespace
            limit == IF c.n_results < 30 THEN c.n_results ELSE 30
        IN  IF blank THEN c.ret = <<>> /\ c.asked = <<>>
            ELSE /\ c.asked = <<limit>>
                 /\ Len(c.ret) = (IF c.stored < limit THEN c.stored ELSE limit)
                 /\ Len(c.ret) <= 30
                 /\ \A i, j \in 1..Len(c.ret) : i # j => c.ret[i] # c.ret[j]
                 /\ \A i \in 1..Len(c.ret) :
                       \E k \in 1..c.stored : c.ret[i] = NumberedServer(k)

C23_Witness ==
    /\ fn_call # <<>>
    /\ fn_call[1].fn = "search"
    /\ fn_call[1].stored > 30
    /\ fn_call[1].n_results > 30
    /\ Len(fn_call[1].ret) = 30

\* the key C24 gives a server: its name in lower case, spaces turned to hyphens
KeyOf(name) == Replace(Lower(name), " ", "-")

\* C24: storing a list a second time leaves the index exactly as the first
\* store left it. After the store the keys are the keys held before plus the
\* keys of the named servers of the list, one entry per key; each server of
\* the list is the entry under its key; entries under other keys are as they
\* were; and a server with an empty name adds nothing.
C24_StoreIdempotent ==
    (fn_call # <<>> /\ fn_call[1].fn = "store") =>
        LET c == fn_call[1]
            keys(ix) == {ix[i].id : i \in 1..Len(ix)}
            named == {i \in 1..Len(c.servers) : c.servers[i].name # <<>>}
            listkeys == {KeyOf(c.servers[i].name) : i \in named}
        IN  /\ c.twice = c.once
            /\ keys(c.once) = keys(c.idx) \cup listkeys
            /\ <<>> \notin keys(c.once)
            /\ \A i, j \in 1..Len(c.once) : i # j => c.once[i].id # c.once[j].id
            /\ \A i \in named :
                  \E k \in 1..Len(c.once) :
                      /\ c.once[k].id = KeyOf(c.servers[i].name)
                      /\ c.once[k].name = c.servers[i].name
                      /\ c.once[k].type = c.servers[i].type
            /\ \A i \in 1..Len(c.idx) :
                  c.idx[i].id \notin listkeys => c.once[i] = c.idx[i]

C24_Witness ==
    /\ fn_call # <<>>
    /\ fn_call[1].fn = "store"
    /\ fn_call[1].idx = FullIndex
    /\ Len(fn_call[1].servers) = 3
    /\ \E i \in 1..3 : fn_call[1].servers[i].name = <<>>
    /\ \E i \in 1..3 : fn_call[1].servers[i].name = Upper(Catalog[1].name)
    /\ \E i \in 1..3 : fn_call[1].servers[i].name = get_local_mcp_servers[12].name
    /\ Len(fn_call[1].once) = Len(FullIndex) + 1
    /\ fn_call[1].once[1].name = Upper(Catalog[1].name)

\* the names a candidate can have: those of the catalog, from which both the
\* index and the snapshot are filled
CandidateNames == Range(NamesOf(Catalog))

\* C25: the number of chat turns of a session that ended with a recommendation
\* message is at most the number of names in its history, which are all
\* candidate names, so it is at most the number of candidate names; and a chat
\* turn that began with every candidate name in the history or connected shows
\* nothing and is handed to the agent.
C25_RecommendationTurnsBounded ==
    \A s \in Sessions :
        /\ History(s) \subseteq CandidateNames
        /\ out[s].shown_turns <= Cardinality(History(s))
        /\ out[s].shown_turns <= Cardinality(CandidateNames)
        /\ (out[s].branch = "chat" /\ pc[s] \in {"run", "idle"}
              /\ CandidateNames \subseteq
                    (out[s].history_before \cup Range(NamesOf(out[s].before)))) =>
                /\ out[s].kind # "Recommendation"
                /\ out[s].shown = <<>>
                /\ out[s].agent_servers # <<>>

C25_Witness ==
    \E s \in Sessions :
        /\ out[s].branch = "chat"
        /\ out[s].kind = "Reply"
        /\ out[s].shown_turns = 2
        /\ out[s].history_before = CandidateNames
        /\ Len(out[s].recommended) = 3

\* a is b with some elements left out, the others in the same order
RECURSIVE IsSubsequence(_, _)
IsSubsequence(a, b) ==
    IF Len(a) = 0 THEN TRUE
    ELSE IF Len(b) = 0 THEN FALSE
    ELSE IF Head(a) = Head(b) THEN IsSubsequence(Tail(a), Tail(b))
    ELSE IsSubsequence(a, Tail(b))

\* C26: the recommendation engine returns at most 3 of the candidates, in
\* candidate order, and the turn shows exactly those of them that are neither
\* in the history nor connected, in the same order; no other candidate takes
\* the place of one that is removed, so a turn whose returned entries are all
\* removed shows nothing.
C26_CapBeforeFilter ==
    /\ [](\A s \in Sessions :
            (out[s].branch = "chat" /\ pc[s] \in {"run", "idle"}) =>
                LET excluded == out[s].history_before \cup Range(NamesOf(out[s].before))
                IN  /\ Len(out[s].recommended) <= 3
                    /\ out[s].shown =
                          Filter(out[s].recommended, Range(out[s].recommended) \ excluded)
                    /\ Range(out[s].recommended) \subseteq excluded =>
                          out[s].kind # "Recommendation")
    /\ [][\A s \in Sessions :
            (pc[s] = "rank" /\ pc'[s] # "rank") =>
                IsSubsequence(out'[s].recommended, NamesOf(turn[s].candidate_servers))]_vars

C26_Witness ==
    \E s \in Sessions :
        /\ out[s].branch = "chat"
        /\ out[s].kind = "Reply"
        /\ Len(out[s].recommended) = 3
        /\ Range(out[s].recommended) \subseteq out[s].history_before
        /\ out[s].ncands = CatalogSize
        /\ Cardinality(out[s].history_before \cup Range(NamesOf(out[s].before))) < CatalogSize

\* C27: for every entry of the local list, the message "connect <name>" typed
\* in any letter case takes the connect branch and the lookup returns that
\* entry: the message is lower-cased as a whole, the lookup compares names
\* exactly, and every name of the list, the one with a space included, is
\* what remains after the command word is cut off.
C27_ConnectAnyCase ==
    (fn_call # <<>> /\ fn_call[1].fn = "connect") =>
        LET c == fn_call[1]
            entry == get_local_mcp_servers[c.entry]
        IN  /\ c.branch = "connect"
            /\ c.user_text = Lower(c.user_text)
            /\ c.server_name = <<entry.name>>
            /\ c.target = <<entry>>
            /\ Lower(entry.name) = entry.name
            /\ \A j \in 1..Len(get_local_mcp_servers) :
                  get_local_mcp_servers[j].name = entry.name => j = c.entry

C27_Witness ==
    /\ fn_call # <<>>
    /\ fn_call[1].fn = "connect"
    /\ fn_call[1].entry = 12
    /\ fn_call[1].content # fn_call[1].user_text
    /\ \E i \in 1..Len(fn_call[1].content) : fn_call[1].content[i] \in Range(UpperChars)
    /\ " " \in Range(fn_call[1].server_name[1])
    /\ fn_call[1].target # <<>>

====
